---- MODULE Spec2Model ----
(***************************************************************************)
(* Token relay service: examples/realtime-next/server/token_server.py.     *)
(*                                                                         *)
(* One route, POST /api/token, handled by the coroutine get_token.  Each   *)
(* request is one task of the event loop.  A task runs without             *)
(* interruption between two awaits, so a request takes these steps:        *)
(*   Receive        the request arrives; the framework reads the body and  *)
(*                  validates it against TokenRequest                      *)
(*   GetTokenStart  get_token from its first line up to the awaited        *)
(*                  client.post (the outbound call is sent)                *)
(*   UpstreamResponds / UpstreamFails                                      *)
(*                  the awaited call completes with a response, or raises  *)
(*   GetTokenFinish get_token from the status check to its return          *)
(***************************************************************************)
EXTENDS Integers, Sequences, FiniteSets, TLC

VARIABLES env, pc, body, req, api_key, calls, upstream, response

vars == <<env, pc, body, req, api_key, calls, upstream, response>>

\* Number of requests the model follows, numbered in order of arrival.
MaxRequests == 2

Requests == 1..MaxRequests

-----------------------------------------------------------------------------
(* JSON values.  An object is the sequence of its <<key, value>> members.  *)

JNull == [t |-> "null"]
JStr(s) == [t |-> "str", s |-> s]
JNum(n) == [t |-> "num", n |-> n]
JArr(items) == [t |-> "arr", items |-> items]
JObj(members) == [t |-> "obj", members |-> members]

\* What json parsing yields for a text that is no JSON document
\* (json.JSONDecodeError, pydantic's json_invalid).
JInvalid == [t |-> "invalid"]

\* dict.get(key): the member's value, None when the key is absent.
DictGet(obj, key) ==
    IF \E i \in 1..Len(obj.members) : obj.members[i][1] = key
    THEN LET i == CHOOSE j \in 1..Len(obj.members) : obj.members[j][1] = key
         IN  obj.members[i][2]
    ELSE JNull

DictHas(obj, key) == \E i \in 1..Len(obj.members) : obj.members[i][1] = key

-----------------------------------------------------------------------------
(* The texts that travel in request and response bodies, and their parse.  *)

NoBodyText == ""
EmptyObjectText == "{}"
ModelMiniText == "{\"model\":\"gpt-realtime-mini\"}"
ModelExtraText == "{\"model\":\"X\",\"voice\":\"alloy\"}"
ArrayText == "[]"

ValueText == "{\"value\":\"secret-abc\"}"
ValueExtraText == "{\"value\":\"secret-abc\",\"expires_at\":1}"
BadKeyText == "{\"error\":\"bad key\"}"
PlainText == "upstream unavailable"

\* json.loads on the texts above.
ParseJson(text) ==
    CASE text = EmptyObjectText -> JObj(<<>>)
      [] text = ModelMiniText -> JObj(<< <<"model", JStr("gpt-realtime-mini")>> >>)
      [] text = ModelExtraText ->
            JObj(<< <<"model", JStr("X")>>, <<"voice", JStr("alloy")>> >>)
      [] text = ArrayText -> JArr(<<>>)
      [] text = ValueText -> JObj(<< <<"value", JStr("secret-abc")>> >>)
      [] text = ValueExtraText ->
            JObj(<< <<"value", JStr("secret-abc")>>, <<"expires_at", JNum(1)>> >>)
      [] text = BadKeyText -> JObj(<< <<"error", JStr("bad key")>> >>)
      [] OTHER -> JInvalid

RequestBodies ==
    {NoBodyText, EmptyObjectText, ModelMiniText, ModelExtraText, ArrayText}

UpstreamBodies ==
    {ValueText, ValueExtraText, EmptyObjectText, BadKeyText, ArrayText, PlainText}

UpstreamStatuses == {200, 400, 401}

\* Exceptions client.post raises when no response arrives.
TransportErrors == {"ConnectError", "ReadTimeout"}

\* OPENAI_API_KEY in the process environment: unset, set to the empty
\* string, or set to a key.
EnvValues ==
    {[set |-> FALSE, v |-> ""], [set |-> TRUE, v |-> ""], [set |-> TRUE, v |-> "sk-test"]}

-----------------------------------------------------------------------------
(* TokenRequest and the framework's validation of the request body.        *)

\* class TokenRequest(BaseModel): model: str = "gpt-realtime"
DefaultModel == "gpt-realtime"

\* The parameter req: TokenRequest of the route is a required JSON body:
\* an empty body, a body that is no JSON document, and a JSON value that is
\* no object are rejected before get_token is called.  In an object the
\* field model is optional and other members are ignored.
ValidateBody(text) ==
    LET parsed == ParseJson(text)
    IN  IF text = NoBodyText \/ parsed = JInvalid \/ parsed.t # "obj"
        THEN [ok |-> FALSE, model |-> ""]
        ELSE IF DictHas(parsed, "model")
             THEN [ok |-> TRUE, model |-> DictGet(parsed, "model").s]
             ELSE [ok |-> TRUE, model |-> DefaultModel]

-----------------------------------------------------------------------------
(* Responses to the client.                                                *)

NoResponse == [status |-> 0, body |-> JNull, raised |-> ""]

\* The framework's answer to a body that fails validation.
ValidationResponse ==
    [status |-> 422,
     body |-> JObj(<< <<"detail", JStr("request validation failed")>> >>),
     raised |-> "RequestValidationError"]

\* raise HTTPException(status_code, detail): answered as {"detail": detail}.
HTTPException(status_code, detail) ==
    [status |-> status_code,
     body |-> JObj(<< <<"detail", detail>> >>),
     raised |-> "HTTPException"]

\* return JSONResponse(content)
JSONResponse(content) == [status |-> 200, body |-> content, raised |-> ""]

\* Any other exception leaves get_token unhandled: the server answers 500
\* with the plain text "Internal Server Error".
UnhandledResponse(exc) ==
    [status |-> 500,
     body |-> [t |-> "text", s |-> "Internal Server Error"],
     raised |-> exc]

-----------------------------------------------------------------------------
(* get_token, first part: the secret check and the outbound call.          *)

\* if not api_key: None and the empty string are both falsy.
MissingKeyNoneOnly(key) == ~key.set

MissingKey(key) == ~key.set \/ key.v = ""

MissingKeyResponse ==
    HTTPException(500, JStr("Missing OPENAI_API_KEY environment variable"))

url == "https://api.openai.com/v1/realtime/client_secrets"

PayloadDefaultModel(model) ==
    [session |->
        [type |-> "realtime",
         model |-> DefaultModel,
         tools |-> <<
            [type |-> "mcp", server_label |-> "deepwiki",
             server_url |-> "https://mcp.deepwiki.com/sse",
             require_approval |-> "always"],
            [type |-> "mcp", server_label |-> "dnd",
             server_url |-> "https://dmcp-server.deno.dev/sse",
             require_approval |-> "always"] >>]]

payload(model) ==
    [session |->
        [type |-> "realtime",
         model |-> model,
         tools |-> <<
            [type |-> "mcp", server_label |-> "deepwiki",
             server_url |-> "https://mcp.deepwiki.com/sse",
             require_approval |-> "always"],
            [type |-> "mcp", server_label |-> "dnd",
             server_url |-> "https://dmcp-server.deno.dev/sse",
             require_approval |-> "always"] >>]]

timeout == 10

\* client.post(url, headers=..., json=payload, timeout=10)
OutboundCall(key, model) ==
    [url |-> url,
     headers |-> [Authorization |-> <<"Bearer", key.v>>,
                  ContentType |-> "application/json"],
     json |-> payload(model),
     timeout |-> timeout]

-----------------------------------------------------------------------------
(* get_token, second part: mapping the upstream response.                  *)

NoAnswer == [kind |-> "none", status_code |-> 0, text |-> ""]

IsUpstreamErrorAbove400(status_code) == status_code > 400

\* if resp.status_code >= 400
IsUpstreamError(status_code) == status_code >= 400

\* try: detail = resp.json()  except Exception: detail = resp.text
ErrorDetail(resp) ==
    LET parsed == ParseJson(resp.text)
    IN  IF parsed # JInvalid THEN parsed ELSE JStr(resp.text)

SuccessResponseRequireValue(data) ==
    IF DictHas(data, "value")
    THEN JSONResponse(JObj(<< <<"token", DictGet(data, "value")>> >>))
    ELSE HTTPException(502, JObj(<< <<"upstream_error", data>> >>))

SuccessResponseWholeBody(data) == JSONResponse(data)

\* return JSONResponse({"token": data.get("value")}), data being a dict
SuccessResponse(data) ==
    JSONResponse(JObj(<< <<"token", DictGet(data, "value")>> >>))

\* Lines 75-83 on a response resp.  resp.json() raises on a body that is no
\* JSON document, and data.get raises on a JSON value that is no object.
MapUpstream(resp) ==
    IF IsUpstreamError(resp.status_code)
    THEN HTTPException(502, JObj(<< <<"upstream_error", ErrorDetail(resp)>> >>))
    ELSE LET data == ParseJson(resp.text)
         IN  IF data = JInvalid THEN UnhandledResponse("JSONDecodeError")
             ELSE IF data.t # "obj" THEN UnhandledResponse("AttributeError")
             ELSE SuccessResponse(data)

-----------------------------------------------------------------------------
(* The state machine.                                                      *)

UnsetKey == [set |-> FALSE, v |-> ""]

Init ==
    /\ env \in EnvValues
    /\ pc = [r \in Requests |-> "idle"]
    /\ body = [r \in Requests |-> NoBodyText]
    /\ req = [r \in Requests |-> [model |-> ""]]
    /\ api_key = [r \in Requests |-> UnsetKey]
    /\ calls = [r \in Requests |-> <<>>]
    /\ upstream = [r \in Requests |-> NoAnswer]
    /\ response = [r \in Requests |-> NoResponse]

\* A task the event loop may run: every task that is not suspended in an
\* await, whatever the other tasks are doing.
RunnableBlocking(r, at) ==
    /\ pc[r] = at
    /\ \A q \in Requests \ {r} : pc[q] # "awaiting"

Runnable(r, at) == pc[r] = at

\* Request r arrives with some body; the framework validates it.
Receive(r) ==
    /\ pc[r] = "idle"
    /\ IF r = 1 THEN TRUE ELSE pc[r - 1] # "idle"
    /\ \E text \in RequestBodies :
          LET v == ValidateBody(text)
          IN  /\ body' = [body EXCEPT ![r] = text]
              /\ IF v.ok
                 THEN /\ req' = [req EXCEPT ![r] = [model |-> v.model]]
                      /\ pc' = [pc EXCEPT ![r] = "validated"]
                      /\ UNCHANGED response
                 ELSE /\ response' = [response EXCEPT ![r] = ValidationResponse]
                      /\ pc' = [pc EXCEPT ![r] = "done"]
                      /\ UNCHANGED req
    /\ UNCHANGED <<env, api_key, calls, upstream>>

\* Lines 36-73: read the secret, fail with 500 when it is missing, else
\* build the payload and send the outbound call, then await its response.
GetTokenStart(r) ==
    /\ Runnable(r, "validated")
    /\ api_key' = [api_key EXCEPT ![r] = env]
    /\ IF MissingKey(env)
       THEN /\ response' = [response EXCEPT ![r] = MissingKeyResponse]
            /\ pc' = [pc EXCEPT ![r] = "done"]
            /\ UNCHANGED calls
       ELSE /\ calls' = [calls EXCEPT
                           ![r] = Append(@, OutboundCall(env, req[r].model))]
            /\ pc' = [pc EXCEPT ![r] = "awaiting"]
            /\ UNCHANGED response
    /\ UNCHANGED <<env, body, req, upstream>>

\* The upstream answers the call of request r.
UpstreamResponds(r) ==
    /\ pc[r] = "awaiting"
    /\ \E status_code \in UpstreamStatuses, text \in UpstreamBodies :
          upstream' = [upstream EXCEPT ![r] =
              [kind |-> "response", status_code |-> status_code, text |-> text]]
    /\ pc' = [pc EXCEPT ![r] = "resumed"]
    /\ UNCHANGED <<env, body, req, api_key, calls, response>>

UpstreamFailsRetry(r) ==
    /\ pc[r] = "awaiting"
    /\ \E exc \in TransportErrors :
          upstream' = [upstream EXCEPT ![r] =
              [kind |-> "error", status_code |-> 0, text |-> exc]]
    /\ IF Len(calls[r]) < 2
       THEN /\ calls' = [calls EXCEPT ![r] = Append(@, calls[r][1])]
            /\ UNCHANGED <<pc, response>>
       ELSE /\ response' = [response EXCEPT
                              ![r] = UnhandledResponse(upstream'[r].text)]
            /\ pc' = [pc EXCEPT ![r] = "done"]
            /\ UNCHANGED calls
    /\ UNCHANGED <<env, body, req, api_key>>

\* The call of request r reaches no response (network failure, or the
\* timeout expires): client.post raises, nothing in get_token catches it.
UpstreamFails(r) ==
    /\ pc[r] = "awaiting"
    /\ \E exc \in TransportErrors :
          /\ upstream' = [upstream EXCEPT ![r] =
                [kind |-> "error", status_code |-> 0, text |-> exc]]
          /\ response' = [response EXCEPT ![r] = UnhandledResponse(exc)]
    /\ pc' = [pc EXCEPT ![r] = "done"]
    /\ UNCHANGED <<env, body, req, api_key, calls>>

\* Lines 75-83 on the response the await returned.
GetTokenFinish(r) ==
    /\ Runnable(r, "resumed")
    /\ response' = [response EXCEPT ![r] = MapUpstream(upstream[r])]
    /\ pc' = [pc EXCEPT ![r] = "done"]
    /\ UNCHANGED <<env, body, req, api_key, calls, upstream>>

Next ==
    \E r \in Requests :
        \/ Receive(r)
        \/ GetTokenStart(r)
        \/ UpstreamResponds(r)
        \/ UpstreamFails(r)
        \/ GetTokenFinish(r)

Spec == Init /\ [][Next]_vars

-----------------------------------------------------------------------------
(* Properties.                                                             *)

Done(r) == pc[r] = "done"

\* get_token was called for request r: the body passed validation and the
\* handler has run its first part.
Handled(r) ==
    \/ pc[r] \in {"awaiting", "resumed"}
    \/ pc[r] = "done" /\ response[r].raised # "RequestValidationError"

KeyAbsent == env.set = FALSE \/ env.v = ""

Answered(r) == pc[r] = "done" /\ upstream[r].kind = "response"

\* The body {"detail": {"upstream_error": ...}} of a 502.
HasUpstreamError(resp) ==
    /\ resp.body.t = "obj"
    /\ DictHas(resp.body, "detail")
    /\ DictGet(resp.body, "detail").t = "obj"
    /\ DictHas(DictGet(resp.body, "detail"), "upstream_error")

UpstreamErrorOf(resp) == DictGet(DictGet(resp.body, "detail"), "upstream_error")

\* C1: while OPENAI_API_KEY is unset or empty, no request causes an
\* outbound call, and every request get_token handles ends with status 500.
C1_MissingKeyNoCall ==
    KeyAbsent =>
        \A r \in Requests :
            /\ calls[r] = <<>>
            /\ upstream[r] = NoAnswer
            /\ Handled(r) => pc[r] = "done" /\ response[r].status = 500

C1_Witness ==
    \E r \in Requests :
        /\ env = [set |-> TRUE, v |-> ""]
        /\ pc[r] = "done"
        /\ response[r] = MissingKeyResponse
        /\ calls[r] = <<>>

\* C2: a request whose outbound call reached no response (network failure
\* or timeout) ends with status 502, raised as an HTTPException whose body
\* carries upstream_error.
C2_TransportErrorIs502 ==
    \A r \in Requests :
        upstream[r].kind = "error" /\ pc[r] = "done" =>
            /\ response[r].status = 502
            /\ response[r].raised = "HTTPException"
            /\ HasUpstreamError(response[r])

C4_MalformedSuccessIs502 ==
    \A r \in Requests :
        /\ Answered(r)
        /\ upstream[r].status_code < 400
        /\ ParseJson(upstream[r].text).t # "obj"
        => /\ response[r].status = 502
           /\ response[r].raised = "HTTPException"

\* C5: an upstream response with a success status and a JSON object body is
\* answered 200 with {"token": v}, v the body's value member, null when
\* the member is absent.
C5_TokenIsValue ==
    \A r \in Requests :
        /\ Answered(r)
        /\ upstream[r].status_code < 400
        /\ ParseJson(upstream[r].text).t = "obj"
        => LET data == ParseJson(upstream[r].text)
               v == IF DictHas(data, "value") THEN DictGet(data, "value") ELSE JNull
           IN  /\ response[r].status = 200
               /\ response[r].raised = ""
               /\ response[r].body = JObj(<< <<"token", v>> >>)
               /\ upstream[r].text = ValueText =>
                     response[r].body = JObj(<< <<"token", JStr("secret-abc")>> >>)
               /\ upstream[r].text = EmptyObjectText =>
                     response[r].body = JObj(<< <<"token", JNull>> >>)

C5_Witness ==
    \E r1, r2 \in Requests :
        /\ Answered(r1) /\ upstream[r1].status_code = 200
        /\ upstream[r1].text = ValueText
        /\ response[r1].body = JObj(<< <<"token", JStr("secret-abc")>> >>)
        /\ Answered(r2) /\ upstream[r2].status_code = 200
        /\ upstream[r2].text = EmptyObjectText
        /\ response[r2].status = 200

\* C6: a request with no body, or with a JSON body without the model field,
\* is accepted and handled with model "gpt-realtime".
C6_MissingBodyAccepted ==
    \A r \in Requests :
        pc[r] # "idle" /\ body[r] \in {NoBodyText, EmptyObjectText} =>
            /\ response[r].status # 422
            /\ req[r].model = "gpt-realtime"

\* C7: every outbound call carries session.type "realtime", session.model
\* equal to the request's model, and the two fixed mcp tool descriptors;
\* other members of the request body change nothing.
C7_PayloadFixedButModel ==
    \A r \in Requests :
        \A i \in 1..Len(calls[r]) :
            LET model == CASE body[r] = ModelMiniText -> "gpt-realtime-mini"
                           [] body[r] = ModelExtraText -> "X"
                           [] OTHER -> "gpt-realtime"
            IN  /\ req[r].model = model
                /\ calls[r][i].json =
                      [session |->
                          [type |-> "realtime",
                           model |-> model,
                           tools |-> <<
                              [type |-> "mcp", server_label |-> "deepwiki",
                               server_url |-> "https://mcp.deepwiki.com/sse",
                               require_approval |-> "always"],
                              [type |-> "mcp", server_label |-> "dnd",
                               server_url |-> "https://dmcp-server.deno.dev/sse",
                               require_approval |-> "always"] >>]]

C7_Witness ==
    \E r1, r2 \in Requests :
        /\ body[r1] = ModelExtraText /\ Len(calls[r1]) = 1
        /\ calls[r1][1].json.session.model = "X"
        /\ body[r2] = EmptyObjectText /\ Len(calls[r2]) = 1

\* C8: while the secret is present, every request get_token handles has
\* caused exactly one outbound call, whatever earlier requests did and
\* however its own call ended.
C8_OneCallPerRequest ==
    ~KeyAbsent =>
        \A r \in Requests :
            /\ Handled(r) => Len(calls[r]) = 1
            /\ ~Handled(r) => Len(calls[r]) = 0

C8_Witness ==
    /\ pc[1] = "done" /\ pc[2] = "done"
    /\ body[1] = body[2]
    /\ response[1].status = 200
    /\ upstream[2] = [kind |-> "error", status_code |-> 0, text |-> "ReadTimeout"]
    /\ Len(calls[1]) = 1 /\ Len(calls[2]) = 1

\* The part of the state that belongs to request r.
Slot(r) == <<pc[r], body[r], req[r], api_key[r], calls[r], upstream[r], response[r]>>

C9_Determined ==
    \A r1, r2 \in Requests :
        /\ Done(r1) /\ Done(r2)
        /\ body[r1] = body[r2]
        /\ upstream[r1] = upstream[r2]
        => /\ response[r1] = response[r2]
           /\ calls[r1] = calls[r2]

C9_NeverBlocked ==
    \A r \in Requests :
        /\ pc[r] = "validated" => ENABLED GetTokenStart(r)
        /\ pc[r] = "awaiting" => ENABLED UpstreamResponds(r)
        /\ pc[r] = "resumed" => ENABLED GetTokenFinish(r)

C9_OwnSlotOnly ==
    /\ env' = env
    /\ \E r \in Requests : \A q \in Requests \ {r} : Slot(q)' = Slot(q)

\* C9: under every interleaving, requests with the same body and the same
\* upstream answer end with the same response and the same outbound call;
\* a request that can take a step can take it whatever state the others
\* are in; and every step changes the state of one request only.
C9_Independent ==
    /\ [](C9_Determined /\ C9_NeverBlocked)
    /\ [][C9_OwnSlotOnly]_vars

C9_Witness ==
    \E r1, r2 \in Requests :
        /\ r1 < r2
        /\ pc[r1] = "awaiting"
        /\ pc[r2] = "done" /\ response[r2].status = 200

\* C10: two 200 responses whose upstream bodies agree on the value member
\* are identical; a 200 body has the single member token and does not
\* carry the server's key.
C10_OnlyValueRelayed ==
    \A r1, r2 \in Requests :
        /\ Done(r1) /\ response[r1].status = 200
        /\ Done(r2) /\ response[r2].status = 200
        => LET d1 == ParseJson(upstream[r1].text)
               d2 == ParseJson(upstream[r2].text)
           IN  /\ Len(response[r1].body.members) = 1
               /\ response[r1].body.members[1][1] = "token"
               /\ response[r1].body.members[1][2] # JStr(env.v)
               /\ \/ DictHas(d1, "value") /\ DictHas(d2, "value")
                     /\ DictGet(d1, "value") = DictGet(d2, "value")
                  \/ ~DictHas(d1, "value") /\ ~DictHas(d2, "value")
                  => response[r1] = response[r2]

C10_Witness ==
    \E r1, r2 \in Requests :
        /\ Done(r1) /\ response[r1].status = 200
        /\ upstream[r1].text = ValueText
        /\ Done(r2) /\ response[r2].status = 200
        /\ upstream[r2].text = ValueExtraText
        /\ response[r1] = response[r2]

====
